---------------------------- MODULE Spec2Model ----------------------------
(***************************************************************************)
(* A model of find-uos-codes.js: the promise chain                         *)
(*   loadInputFile -> augmentInputDataWithRecordNumbers -> findUosCode     *)
(*   -> augmentInputDataWithResults -> outputInNewColumn |                 *)
(*      outputInExistingColumn -> process.exit                             *)
(* Text is modelled character by character (TLA+ strings are sequences of  *)
(* characters); the two regular expressions of the program are matchers    *)
(* over those characters.                                                  *)
(***************************************************************************)
EXTENDS Integers, Sequences, FiniteSets, TLC

VARIABLES
  input,                   \* the rows csv.parse delivers, or unreadable
  optSkip,                 \* options.skip
  optColumn,               \* options.column
  optResultColumn,         \* options['result-column']
  store,                   \* the Sierra database: record_num -> COURSE fields
  pc,                      \* position in the promise chain
  inputData,               \* state.inputData
  uniqSetOfRecordNumbers,  \* findUosCode's local list
  cursor,                  \* position of findUosCode's for-of loop
  inflight,                \* record_nums whose t.any() has not settled
  mapping,                 \* findUosCode's Map
  queries,                 \* every record_num handed to t.any(), in order
  output,                  \* the records written to csvStringify, in order
  exitCode                 \* the argument of process.exit, once called

vars == << input, optSkip, optColumn, optResultColumn, store, pc, inputData,
           uniqSetOfRecordNumbers, cursor, inflight, mapping, queries,
           output, exitCode >>

-----------------------------------------------------------------------------
(* Bounds of the model *)

MaxRows == 2      \* rows of an input table
MaxFields == 2    \* COURSE fields the store returns for one record

-----------------------------------------------------------------------------
(* JavaScript values *)

\* null / undefined, and a present value v, for fields that may be absent
Null == << >>
Some(v) == << v >>
IsNull(o) == o = Null
Val(o) == o[1]

Max(a, b) == IF a >= b THEN a ELSE b
Min(a, b) == IF a <= b THEN a ELSE b

CharAt(s, i) == SubSeq(s, i, i)

\* The characters of the model in ascending UTF-16 code unit order
CharOrder == "\t\n\r !\",0123456789;ABCDEFGHIJKLMNOPQRSTUVWXYZabcdefghijklmnopqrstuvwxyz"

CharCode(c) == CHOOSE i \in 1..Len(CharOrder) : CharAt(CharOrder, i) = c

\* a < b for two JavaScript strings
RECURSIVE StringLess(_, _)
StringLess(a, b) ==
  IF Len(b) = 0 THEN FALSE
  ELSE IF Len(a) = 0 THEN TRUE
  ELSE IF Head(a) = Head(b) THEN StringLess(Tail(a), Tail(b))
  ELSE CharCode(Head(a)) < CharCode(Head(b))

Digit == { "0", "1", "2", "3", "4", "5", "6", "7", "8", "9" }
Upper == { "A", "B", "C", "D", "E", "F", "G", "H", "I", "J", "K", "L", "M",
           "N", "O", "P", "Q", "R", "S", "T", "U", "V", "W", "X", "Y", "Z" }
\* \s, over the characters of the model
Space == { " ", "\t", "\n", "\r" }

-----------------------------------------------------------------------------
(* lodash *)

\* _.drop
Drop(xs, n) == SubSeq(xs, Max(n, 0) + 1, Len(xs))
\* _.take
Take(xs, n) == SubSeq(xs, 1, Min(Max(n, 0), Len(xs)))

\* _fp.flattenDeep, of a list of lists of strings
RECURSIVE FlattenDeep(_)
FlattenDeep(xss) ==
  IF xss = << >> THEN << >> ELSE Head(xss) \o FlattenDeep(Tail(xss))

\* one step of a stable insertion into a sorted list
RECURSIVE InsertSorted(_, _)
InsertSorted(x, xs) ==
  IF xs = << >> THEN << x >>
  ELSE IF StringLess(x, Head(xs)) THEN << x >> \o xs
  ELSE << Head(xs) >> \o InsertSorted(x, Tail(xs))

\* _fp.sortBy(_fp.identity), of a list of strings
RECURSIVE SortBy(_)
SortBy(xs) ==
  IF xs = << >> THEN << >>
  ELSE InsertSorted(xs[Len(xs)], SortBy(SubSeq(xs, 1, Len(xs) - 1)))

\* _fp.sortedUniq
RECURSIVE SortedUniq(_)
SortedUniq(xs) ==
  IF Len(xs) <= 1 THEN xs
  ELSE IF xs[1] = xs[2] THEN SortedUniq(Tail(xs))
  ELSE << xs[1] >> \o SortedUniq(Tail(xs))

\* _fp.uniq: the first occurrence of each value, in order
RECURSIVE Uniq(_)
Uniq(xs) ==
  IF xs = << >> THEN << >>
  ELSE LET init == Uniq(SubSeq(xs, 1, Len(xs) - 1))
           last == xs[Len(xs)]
       IN IF \E i \in 1..Len(init) : init[i] = last
          THEN init ELSE Append(init, last)

\* Array.prototype.join
RECURSIVE Join(_, _)
Join(xs, sep) ==
  IF xs = << >> THEN ""
  ELSE IF Len(xs) = 1 THEN xs[1]
  ELSE xs[1] \o sep \o Join(Tail(xs), sep)

-----------------------------------------------------------------------------
(* The command line *)

\* const recordNumberColumn = _.max([ options.column - 1, 0 ])
recordNumberColumn == Max(optColumn - 1, 0)
\* const resultColumn = _.max([ options['result-column'] - 1, -1 ])
resultColumn == Max(optResultColumn - 1, -1)
\* const wantsPrependedResults = resultColumn === -1
wantsPrependedResults == resultColumn = -1

-----------------------------------------------------------------------------
(* Arrays of cells *)

\* x.cells[i] exists (i counts from 0)
HasCell(cells, i) == 0 <= i /\ i < Len(cells)

\* the truthiness of x.cells[i]: a missing cell is undefined, '' is falsy
CellTruthy(cells, i) == HasCell(cells, i) /\ cells[i + 1] # ""

\* n holes of an array, which csv.stringify writes as empty fields
RECURSIVE Holes(_)
Holes(n) == IF n <= 0 THEN << >> ELSE << "" >> \o Holes(n - 1)

\* let y = [ ...cells ]; y[i] = v
SetCell(cells, i, v) ==
  IF HasCell(cells, i) THEN [ cells EXCEPT ![i + 1] = v ]
  ELSE cells \o Holes(i - Len(cells)) \o << v >>

-----------------------------------------------------------------------------
(* augmentInputDataWithRecordNumbers *)

\* the number of digits in /r(\d{7})/g
RecordNumberDigits == 7

\* /r(\d{7})/ matches s at position i
RecordNumberAt(s, i) ==
  /\ i + RecordNumberDigits <= Len(s)
  /\ CharAt(s, i) = "r"
  /\ \A k \in 1..RecordNumberDigits : CharAt(s, i + k) \in Digit

\* the matches of /r(\d{7})/g in s from position i on, left to right
RECURSIVE RecordNumbersFrom(_, _)
RecordNumbersFrom(s, i) ==
  IF i > Len(s) THEN << >>
  ELSE IF RecordNumberAt(s, i)
       THEN << SubSeq(s, i, i + RecordNumberDigits) >>
            \o RecordNumbersFrom(s, i + RecordNumberDigits + 1)
       ELSE RecordNumbersFrom(s, i + 1)

\* s.match(recordNumberRegEx): null when nothing matches
MatchRecordNumbers(s) ==
  LET ms == RecordNumbersFrom(s, 1)
  IN IF ms = << >> THEN Null ELSE Some(ms)

\* A faulty variant of rowsToProcess: the _.reject of the rows whose result
\* cell is filled is missing
RowsToProcessWithoutReject(data) ==
  (Len(Take(data, optSkip)) + 1)..Len(data)

\* the positions in inputData of rowsToProcess
RowsToProcess(data) ==
  { i \in (Len(Take(data, optSkip)) + 1)..Len(data) :
      wantsPrependedResults \/ ~CellTruthy(data[i].cells, resultColumn) }

\* the rows of rowsToProcess on which x.cells[recordNumberColumn] is
\* undefined, so that .match throws a TypeError
RowsWithoutRecordNumberCell(data) ==
  { i \in RowsToProcess(data) : ~HasCell(data[i].cells, recordNumberColumn) }

-----------------------------------------------------------------------------
(* findUosCode *)

\* the number of letters and of digits in /([A-Z]{4}\s*[0-9]{4})/g
UosLetters == 4
UosDigits == 4

\* the end of the run of \s characters of s that starts at position i
RECURSIVE SkipSpace(_, _)
SkipSpace(s, i) ==
  IF i <= Len(s) /\ CharAt(s, i) \in Space THEN SkipSpace(s, i + 1) ELSE i

\* the position after the match of /[A-Z]{4}\s*[0-9]{4}/ at position i of
\* s, or 0 when there is none
UosCodeEnd(s, i) ==
  IF /\ i + UosLetters - 1 <= Len(s)
     /\ \A k \in 0..(UosLetters - 1) : CharAt(s, i + k) \in Upper
  THEN LET d == SkipSpace(s, i + UosLetters)
       IN IF /\ d + UosDigits - 1 <= Len(s)
             /\ \A k \in 0..(UosDigits - 1) : CharAt(s, d + k) \in Digit
          THEN d + UosDigits
          ELSE 0
  ELSE 0

\* the matches of uosCodeRegEx in s from position i on, left to right
RECURSIVE UosCodesFrom(_, _)
UosCodesFrom(s, i) ==
  IF i > Len(s) THEN << >>
  ELSE LET e == UosCodeEnd(s, i)
       IN IF e > 0 THEN << SubSeq(s, i, e - 1) >> \o UosCodesFrom(s, e)
          ELSE UosCodesFrom(s, i + 1)

\* x.field_content.match(uosCodeRegEx)
MatchUosCodes(s) ==
  LET ms == UosCodesFrom(s, 1)
  IN IF ms = << >> THEN Null ELSE Some(ms)

\* x.replace(' ', ''): a string pattern replaces its first occurrence only
RECURSIVE ReplaceFirstBlank(_)
ReplaceFirstBlank(x) ==
  IF x = "" THEN ""
  ELSE IF Head(x) = " " THEN Tail(x)
  ELSE Head(x) \o ReplaceFirstBlank(Tail(x))

\* _fp.filter(_fp.identity), of a list of match results
RECURSIVE Compact(_)
Compact(os) ==
  IF os = << >> THEN << >>
  ELSE IF IsNull(Head(os)) THEN Compact(Tail(os))
  ELSE << Val(Head(os)) >> \o Compact(Tail(os))

\* const uosCodes = _fp.flow(...)(courseFields)
UosCodes(courseFields) ==
  LET matches == [ i \in 1..Len(courseFields) |-> MatchUosCodes(courseFields[i]) ]
      found == FlattenDeep(Compact(matches))
      replaced == [ i \in 1..Len(found) |-> ReplaceFirstBlank(found[i]) ]
  IN SortedUniq(SortBy(replaced))

\* a value of the Map: an array of codes, or one string
CodesValue(codes) == [ isArray |-> TRUE, codes |-> codes, text |-> "" ]
TextValue(text) == [ isArray |-> FALSE, codes |-> << >>, text |-> text ]

\* the value of mapping.set(recordNumber, ...)
Resolution(recordNumber, courseFields) ==
  LET uosCodes == UosCodes(courseFields)
  IN IF Len(uosCodes) > 0 THEN CodesValue(uosCodes)
     ELSE IF Len(courseFields) > 0 THEN TextValue(courseFields[1])
     ELSE TextValue(recordNumber)

\* A faulty variant of uniqSetOfRecordNumbers: sortedUniq without the sortBy
\* before it, which leaves duplicates that are not adjacent
UniqSetOfRecordNumbersUnsorted(data) ==
  SortedUniq(FlattenDeep(Compact(
    [ i \in 1..Len(data) |-> data[i].recordNumbers ])))

\* let uniqSetOfRecordNumbers = _fp.flow(...)(inputData)
UniqSetOfRecordNumbers(data) ==
  SortedUniq(SortBy(FlattenDeep(Compact(
    [ i \in 1..Len(data) |-> data[i].recordNumbers ]))))

\* recordNumber.substr(1), the parameter of the query
RecordNum(recordNumber) == Tail(recordNumber)

-----------------------------------------------------------------------------
(* augmentInputDataWithResults *)

\* _fp.flattenDeep over values of the Map
RECURSIVE FlattenValues(_)
FlattenValues(vs) ==
  IF vs = << >> THEN << >>
  ELSE (IF Head(vs).isArray THEN Head(vs).codes ELSE << Head(vs).text >>)
       \o FlattenValues(Tail(vs))

\* A faulty variant of row.results: the sort-based deduplication of
\* findUosCode in the place of _fp.uniq
RowResultsSorted(recordNumbers, map) ==
  SortedUniq(SortBy(
    FlattenValues([ i \in 1..Len(recordNumbers) |-> map[recordNumbers[i]] ])))

\* row.results = _fp.flow(...)(row.recordNumbers)
RowResults(recordNumbers, map) ==
  Uniq(FlattenValues([ i \in 1..Len(recordNumbers) |-> map[recordNumbers[i]] ]))

-----------------------------------------------------------------------------
(* outputInExistingColumn, outputInNewColumn *)

\* the record outputInExistingColumn writes for a row of the first
\* options.skip rows
ExistingColumnSkippedRow(x) == << "" >> \o x.cells

\* A faulty variant of the overwrite: the 1-based option in the place of
\* the 0-based resultColumn
ExistingColumnRowOffByOne(x) ==
  IF ~IsNull(x.results)
  THEN SetCell(x.cells, optResultColumn, Join(Val(x.results), ", "))
  ELSE x.cells

\* the record outputInExistingColumn writes for any other row
ExistingColumnRow(x) ==
  IF ~IsNull(x.results)
  THEN SetCell(x.cells, resultColumn, Join(Val(x.results), ", "))
  ELSE x.cells

\* the record outputInNewColumn writes for a row of the first
\* options.skip rows
NewColumnSkippedRow(x) == x.cells

\* the record outputInNewColumn writes for any other row
NewColumnRow(x) ==
  IF ~IsNull(x.results)
  THEN << Join(Val(x.results), ", ") >> \o x.cells
  ELSE << "" >> \o x.cells

\* the records outputInExistingColumn writes: the two loops, in order
WrittenInExistingColumn(data) ==
  [ i \in 1..Len(Take(data, optSkip)) |-> ExistingColumnSkippedRow(data[i]) ]
  \o [ i \in 1..Len(Drop(data, optSkip)) |->
         ExistingColumnRow(Drop(data, optSkip)[i]) ]

\* A faulty variant of outputInNewColumn: the loop over the first
\* options.skip rows is missing
WrittenInNewColumnWithoutSkipped(data) ==
  [ i \in 1..Len(Drop(data, optSkip)) |->
      NewColumnRow(Drop(data, optSkip)[i]) ]

\* the records outputInNewColumn writes: the two loops, in order
WrittenInNewColumn(data) ==
  [ i \in 1..Len(Take(data, optSkip)) |-> NewColumnSkippedRow(data[i]) ]
  \o [ i \in 1..Len(Drop(data, optSkip)) |->
         NewColumnRow(Drop(data, optSkip)[i]) ]

-----------------------------------------------------------------------------
(* The inputs of a run *)

\* the lists of at most n elements of S
RECURSIVE SeqsUpTo(_, _)
SeqsUpTo(S, n) ==
  IF n <= 0 THEN { << >> }
  ELSE LET shorter == SeqsUpTo(S, n - 1)
       IN shorter \cup { Append(xs, x) : xs \in { ys \in shorter : Len(ys) = n - 1 }, x \in S }

\* the record numbers of the README, and their record_num in the store
RecordNumbers == { "r1006349", "r1006370" }
RecordNums == { RecordNum(r) : r \in RecordNumbers }

\* cells: blank; one record number; three matches among quotes, separators,
\* a repeat and a number that runs on for an eighth digit
ProjectionCells == { "", "r1006349", "\"r1006370\"; r10063499,r1006370" }
ProjectionRows == { xs \in SeqsUpTo(ProjectionCells, 2) : Len(xs) >= 1 }

\* rows with two record numbers in either order, and with none that match
AssemblerRows ==
  { << "r1006349 r1006370", "x" >>,
    << "r1006370r1006349", "" >>,
    << "R1006349 r100637;", "" >> }

\* COURSE field texts: a code with no, one, two blanks and with a tab; no
\* code; two codes out of order, the second inside a longer run; empty
FieldTexts ==
  { "ABCD1234", "ABCD 1234", "ABCD  1234", "ABCD\t1234", "abcd 1234 n/a",
    "ZZZZ9999;ABCDE12345", "" }

\* the answer of the store for one record_num: rows, or an error
Answer(fields) == [ ok |-> TRUE, fields |-> fields ]
StoreError == [ ok |-> FALSE, fields |-> << >> ]

\* the store of the README's example
ExampleStore ==
  [ n \in RecordNums |->
      IF n = "1006349" THEN Answer(<< "ABCD 1234", "ABCD1234" >>)
      ELSE Answer(<< >>) ]

AssemblerAnswers ==
  { StoreError, Answer(<< >>), Answer(<< "ABCD 1234", "ABCD1234" >>),
    Answer(<< "see WXYZ0001 and ABCD1234" >>), Answer(<< "no code" >>) }

\* what csv.parse delivers: the rows, or an error event
Parsed(rows) == [ ok |-> TRUE, rows |-> rows ]
Unreadable == [ ok |-> FALSE, rows |-> << >> ]

StartOfRun ==
  /\ pc = "loadInputFile"
  /\ inputData = << >>
  /\ uniqSetOfRecordNumbers = << >>
  /\ cursor = 1
  /\ inflight = { }
  /\ mapping = [ r \in { } |-> TextValue("") ]
  /\ queries = << >>
  /\ output = << >>
  /\ exitCode = Null

\* tables of every shape under every setting of the options, one store
InitProjection ==
  /\ input \in { Parsed(rows) : rows \in SeqsUpTo(ProjectionRows, MaxRows) }
                 \cup { Unreadable }
  /\ optSkip \in 0..2
  /\ optColumn \in 1..2
  /\ optResultColumn \in 0..3
  /\ store = ExampleStore
  /\ StartOfRun

\* one table, every list of COURSE fields for its first record number
InitResolver ==
  /\ input = Parsed(<< << "record" >>, << "r1006349" >>, << "r1006370,r1006349" >> >>)
  /\ optSkip = 1
  /\ optColumn = 1
  /\ optResultColumn = 0
  /\ store \in { [ n \in RecordNums |-> IF n = "1006349" THEN a ELSE b ] :
                   a \in { Answer(fs) : fs \in SeqsUpTo(FieldTexts, MaxFields) }
                         \cup { StoreError },
                   b \in { Answer(<< >>), Answer(<< "ABCD1234" >>) } }
  /\ StartOfRun

\* rows with several record numbers, every pair of answers of the store
InitAssembler ==
  /\ input \in { Parsed(rows) : rows \in SeqsUpTo(AssemblerRows, MaxRows) }
  /\ optSkip \in 0..1
  /\ optColumn = 1
  /\ optResultColumn \in { 0, 2 }
  /\ store \in [ RecordNums -> AssemblerAnswers ]
  /\ StartOfRun

Init == InitProjection \/ InitResolver \/ InitAssembler

-----------------------------------------------------------------------------
(* The promise chain *)

\* loadInputFile: csvParseStream's 'data' events, then 'end'
LoadInputFile ==
  /\ pc = "loadInputFile"
  /\ input.ok
  /\ inputData' = [ i \in 1..Len(input.rows) |->
                      [ cells |-> input.rows[i],
                        recordNumbers |-> Null,
                        results |-> Null ] ]
  /\ pc' = "augmentInputDataWithRecordNumbers"
  /\ UNCHANGED << input, optSkip, optColumn, optResultColumn, store,
                  uniqSetOfRecordNumbers, cursor, inflight, mapping, queries,
                  output, exitCode >>

\* loadInputFile: an 'error' event of either stream
LoadInputFileError ==
  /\ pc = "loadInputFile"
  /\ ~input.ok
  /\ pc' = "rejected"
  /\ UNCHANGED << input, optSkip, optColumn, optResultColumn, store, inputData,
                  uniqSetOfRecordNumbers, cursor, inflight, mapping, queries,
                  output, exitCode >>

\* augmentInputDataWithRecordNumbers: the rows of rowsToProcess get their
\* recordNumbers in order, up to the first whose cell is missing
AugmentInputDataWithRecordNumbers ==
  /\ pc = "augmentInputDataWithRecordNumbers"
  /\ LET todo == RowsToProcess(inputData)
         bad == RowsWithoutRecordNumberCell(inputData)
         stop == IF bad = { } THEN Len(inputData) + 1
                 ELSE CHOOSE i \in bad : \A j \in bad : i <= j
     IN /\ inputData' =
             [ i \in 1..Len(inputData) |->
                 IF i \in todo /\ i < stop
                 THEN [ inputData[i] EXCEPT !.recordNumbers =
                          MatchRecordNumbers(inputData[i].cells[recordNumberColumn + 1]) ]
                 ELSE inputData[i] ]
        /\ pc' = IF bad = { } THEN "findUosCode" ELSE "rejected"
  /\ UNCHANGED << input, optSkip, optColumn, optResultColumn, store,
                  uniqSetOfRecordNumbers, cursor, inflight, mapping, queries,
                  output, exitCode >>

\* findUosCode up to the for-of loop of the task
FindUosCode ==
  /\ pc = "findUosCode"
  /\ mapping' = [ r \in { } |-> TextValue("") ]
  /\ uniqSetOfRecordNumbers' = UniqSetOfRecordNumbers(inputData)
  /\ cursor' = 1
  /\ pc' = "forOf"
  /\ UNCHANGED << input, optSkip, optColumn, optResultColumn, store, inputData,
                  inflight, queries, output, exitCode >>

\* A faulty variant of the loop: t.any is called for every remaining
\* recordNumber without awaiting any of them
QueryAllAtOnce ==
  /\ pc = "forOf"
  /\ cursor <= Len(uniqSetOfRecordNumbers)
  /\ LET rest == SubSeq(uniqSetOfRecordNumbers, cursor, Len(uniqSetOfRecordNumbers))
     IN /\ inflight' = inflight \cup { RecordNum(r) : r \in { rest[i] : i \in 1..Len(rest) } }
        /\ queries' = queries \o [ i \in 1..Len(rest) |-> RecordNum(rest[i]) ]
  /\ pc' = "await"
  /\ UNCHANGED << input, optSkip, optColumn, optResultColumn, store, inputData,
                  uniqSetOfRecordNumbers, cursor, mapping, output, exitCode >>

\* the loop takes the next recordNumber and calls t.any
Query ==
  /\ pc = "forOf"
  /\ cursor <= Len(uniqSetOfRecordNumbers)
  /\ inflight' = inflight \cup { RecordNum(uniqSetOfRecordNumbers[cursor]) }
  /\ queries' = Append(queries, RecordNum(uniqSetOfRecordNumbers[cursor]))
  /\ pc' = "await"
  /\ UNCHANGED << input, optSkip, optColumn, optResultColumn, store, inputData,
                  uniqSetOfRecordNumbers, cursor, mapping, output, exitCode >>

\* t.any resolves with courseFields: the rest of the loop body
QueryResolves ==
  /\ pc = "await"
  /\ LET recordNumber == uniqSetOfRecordNumbers[cursor]
         answer == store[RecordNum(recordNumber)]
     IN /\ answer.ok
        /\ mapping' =
             [ r \in DOMAIN mapping \cup { recordNumber } |->
                 IF r = recordNumber THEN Resolution(recordNumber, answer.fields)
                 ELSE mapping[r] ]
        /\ inflight' = inflight \ { RecordNum(recordNumber) }
  /\ cursor' = cursor + 1
  /\ pc' = "forOf"
  /\ UNCHANGED << input, optSkip, optColumn, optResultColumn, store, inputData,
                  uniqSetOfRecordNumbers, queries, output, exitCode >>

\* A faulty variant of the rejection: the error is caught inside the loop,
\* the record number stands in for its resolution and the loop goes on
QueryRejectsSwallowed ==
  /\ pc = "await"
  /\ LET recordNumber == uniqSetOfRecordNumbers[cursor]
     IN /\ ~store[RecordNum(recordNumber)].ok
        /\ mapping' =
             [ r \in DOMAIN mapping \cup { recordNumber } |->
                 IF r = recordNumber THEN TextValue(recordNumber) ELSE mapping[r] ]
        /\ inflight' = inflight \ { RecordNum(recordNumber) }
  /\ cursor' = cursor + 1
  /\ pc' = "forOf"
  /\ UNCHANGED << input, optSkip, optColumn, optResultColumn, store, inputData,
                  uniqSetOfRecordNumbers, queries, output, exitCode >>

\* t.any rejects: the await throws out of the task and of findUosCode
QueryRejects ==
  /\ pc = "await"
  /\ LET recordNumber == uniqSetOfRecordNumbers[cursor]
     IN /\ ~store[RecordNum(recordNumber)].ok
        /\ inflight' = inflight \ { RecordNum(recordNumber) }
  /\ pc' = "rejected"
  /\ UNCHANGED << input, optSkip, optColumn, optResultColumn, store, inputData,
                  uniqSetOfRecordNumbers, cursor, mapping, queries, output,
                  exitCode >>

\* the loop is over: the task resolves and findUosCode returns the state
\* with the mapping
FindUosCodeReturns ==
  /\ pc = "forOf"
  /\ cursor > Len(uniqSetOfRecordNumbers)
  /\ pc' = "augmentInputDataWithResults"
  /\ UNCHANGED << input, optSkip, optColumn, optResultColumn, store, inputData,
                  uniqSetOfRecordNumbers, cursor, inflight, mapping, queries,
                  output, exitCode >>

\* augmentInputDataWithResults
AugmentInputDataWithResults ==
  /\ pc = "augmentInputDataWithResults"
  /\ inputData' =
       [ i \in 1..Len(inputData) |->
           IF ~IsNull(inputData[i].recordNumbers)
           THEN [ inputData[i] EXCEPT !.results =
                    Some(RowResults(Val(inputData[i].recordNumbers), mapping)) ]
           ELSE inputData[i] ]
  /\ pc' = "output"
  /\ UNCHANGED << input, optSkip, optColumn, optResultColumn, store,
                  uniqSetOfRecordNumbers, cursor, inflight, mapping, queries,
                  output, exitCode >>

\* outputInNewColumn, chosen when wantsPrependedResults
OutputInNewColumn ==
  /\ pc = "output"
  /\ wantsPrependedResults
  /\ output' = output \o WrittenInNewColumn(inputData)
  /\ pc' = "resolved"
  /\ UNCHANGED << input, optSkip, optColumn, optResultColumn, store, inputData,
                  uniqSetOfRecordNumbers, cursor, inflight, mapping, queries,
                  exitCode >>

\* outputInExistingColumn, chosen otherwise
OutputInExistingColumn ==
  /\ pc = "output"
  /\ ~wantsPrependedResults
  /\ output' = output \o WrittenInExistingColumn(inputData)
  /\ pc' = "resolved"
  /\ UNCHANGED << input, optSkip, optColumn, optResultColumn, store, inputData,
                  uniqSetOfRecordNumbers, cursor, inflight, mapping, queries,
                  exitCode >>

\* .then(() => process.exit(0))
ExitSuccess ==
  /\ pc = "resolved"
  /\ exitCode' = Some(0)
  /\ pc' = "exited"
  /\ UNCHANGED << input, optSkip, optColumn, optResultColumn, store, inputData,
                  uniqSetOfRecordNumbers, cursor, inflight, mapping, queries,
                  output >>

\* .catch(err => { console.error(err); process.exit(1) })
ExitFailure ==
  /\ pc = "rejected"
  /\ exitCode' = Some(1)
  /\ pc' = "exited"
  /\ UNCHANGED << input, optSkip, optColumn, optResultColumn, store, inputData,
                  uniqSetOfRecordNumbers, cursor, inflight, mapping, queries,
                  output >>

Next ==
  \/ LoadInputFile
  \/ LoadInputFileError
  \/ AugmentInputDataWithRecordNumbers
  \/ FindUosCode
  \/ Query
  \/ QueryResolves
  \/ QueryRejects
  \/ FindUosCodeReturns
  \/ AugmentInputDataWithResults
  \/ OutputInNewColumn
  \/ OutputInExistingColumn
  \/ ExitSuccess
  \/ ExitFailure

Spec == Init /\ [][Next]_vars

-----------------------------------------------------------------------------
(* The vocabulary of the properties, stated without the program's code *)

\* the run reached its end without an error
Succeeded == pc = "resolved" \/ (pc = "exited" /\ exitCode = Some(0))

\* findUosCode has returned
LookupsDone == pc \in { "augmentInputDataWithResults", "output" } \/ Succeeded

\* augmentInputDataWithResults has returned
Assembled == pc = "output" \/ Succeeded

\* an output function has run
OutputWritten == Succeeded

\* the text r occurs in text
Mentions(text, r) ==
  \E p \in 1..Len(text) :
    p + Len(r) - 1 <= Len(text) /\ SubSeq(text, p, p + Len(r) - 1) = r

\* row i of the input (counted from 1) is neither one of the skipped rows
\* nor, in in-place mode, a row whose result cell is already filled
IsProcessed(i) ==
  /\ input.ok
  /\ optSkip < i /\ i <= Len(input.rows)
  /\ \/ optResultColumn = 0
     \/ optResultColumn > Len(input.rows[i])
     \/ input.rows[i][optResultColumn] = ""

\* row i is processed and its record number cell holds record number r
References(i, r) ==
  /\ IsProcessed(i)
  /\ optColumn <= Len(input.rows[i])
  /\ Mentions(input.rows[i][optColumn], r)

\* t is four uppercase letters, whitespace, four digits
IsUosMatch(t) ==
  /\ Len(t) >= 8
  /\ \A k \in 1..4 : CharAt(t, k) \in Upper
  /\ \A k \in 5..(Len(t) - 4) : CharAt(t, k) \in Space
  /\ \A k \in (Len(t) - 3)..Len(t) : CharAt(t, k) \in Digit

\* the matches of the UOS pattern in one field text
UosMatchesIn(f) ==
  { SubSeq(f, ij[1], ij[2]) :
      ij \in { ij \in (1..Len(f)) \X (1..Len(f)) :
                 ij[1] <= ij[2] /\ IsUosMatch(SubSeq(f, ij[1], ij[2])) } }

\* the matches of the UOS pattern in a list of field texts
UosMatchesOf(fs) == UNION { UosMatchesIn(fs[i]) : i \in 1..Len(fs) }

\* t with all of its whitespace removed
RECURSIVE StripSpace(_)
StripSpace(t) ==
  IF t = "" THEN ""
  ELSE IF Head(t) \in Space THEN StripSpace(Tail(t))
  ELSE Head(t) \o StripSpace(Tail(t))

\* a list of strings in ascending order without duplicates
IsStrictlySorted(xs) == \A i \in 1..(Len(xs) - 1) : StringLess(xs[i], xs[i + 1])

Elements(xs) == { xs[i] : i \in 1..Len(xs) }

\* the strings a resolution stands for
ResolutionItems(v) == IF v.isArray THEN Elements(v.codes) ELSE { v.text }

\* the COURSE fields the store returned for record number r
FieldsOf(r) == store[Tail(r)].fields

-----------------------------------------------------------------------------
(* Properties *)

\* C1: the resolution of a record number is decided by the list of COURSE
\* fields the store returned for it: the record number itself for an empty
\* list; the raw text of the first field when no field holds a UOS match;
\* otherwise the matches with their whitespace removed, sorted
\* lexicographically, without duplicates.
ResolutionIsThreeTiered ==
  \A r \in DOMAIN mapping :
    IF FieldsOf(r) = << >> THEN mapping[r] = TextValue(r)
    ELSE IF UosMatchesOf(FieldsOf(r)) = { } THEN mapping[r] = TextValue(FieldsOf(r)[1])
    ELSE /\ mapping[r] = CodesValue(mapping[r].codes)
         /\ IsStrictlySorted(mapping[r].codes)
         /\ Elements(mapping[r].codes)
              = { StripSpace(m) : m \in UosMatchesOf(FieldsOf(r)) }

\* C6: every code of a resolution is a match of the UOS pattern with all of
\* its whitespace removed, hence four uppercase letters and four digits, and
\* every match is represented by its whitespace-free form, so that matches
\* that differ in whitespace only share one code.
ResolvedCodesAreWhitespaceFree ==
  \A r \in DOMAIN mapping :
    mapping[r].isArray =>
      /\ \A c \in Elements(mapping[r].codes) :
           /\ Len(c) = 8
           /\ \A k \in 1..4 : CharAt(c, k) \in Upper
           /\ \A k \in 5..8 : CharAt(c, k) \in Digit
           /\ \E m \in UosMatchesOf(FieldsOf(r)) : c = StripSpace(m)
      /\ \A m \in UosMatchesOf(FieldsOf(r)) :
           StripSpace(m) \in Elements(mapping[r].codes)

\* C4: in insert mode every written row, the skipped rows included, is its
\* input row behind one new leading cell; the new cell is blank for skipped
\* rows and rows without results and the results joined with ", " otherwise.
InsertModeEveryRowGainsLeadingCell ==
  (OutputWritten /\ optResultColumn = 0) =>
    /\ Len(output) = Len(input.rows)
    /\ \A i \in 1..Len(output) :
         /\ Len(output[i]) = Len(input.rows[i]) + 1
         /\ Tail(output[i]) = input.rows[i]
         /\ output[i][1] =
              IF i <= optSkip \/ IsNull(inputData[i].results) THEN ""
              ELSE Join(Val(inputData[i].results), ", ")

\* C2: no record number is queried twice; only record numbers of processed
\* rows are queried; once the lookups are over each of them has been queried
\* exactly once; and every row that references a record number carries the
\* one resolution recorded for it.
EachRecordNumberQueriedOnce ==
  /\ \A p, q \in 1..Len(queries) : queries[p] = queries[q] => p = q
  /\ \A p \in 1..Len(queries) :
       \E i \in 1..Len(input.rows) : References(i, "r" \o queries[p])
  /\ LookupsDone =>
       \A r \in RecordNumbers :
         (\E i \in 1..Len(input.rows) : References(i, r)) =>
           Cardinality({ p \in 1..Len(queries) : queries[p] = Tail(r) }) = 1
  /\ Assembled =>
       \A r \in RecordNumbers : \A i \in 1..Len(input.rows) :
         References(i, r) =>
           /\ ~IsNull(inputData[i].results)
           /\ ResolutionItems(mapping[r]) \subseteq Elements(Val(inputData[i].results))

\* C2 happens: a record number repeated in one cell and referenced by a
\* second row has been queried once, and the run has succeeded
EachRecordNumberQueriedOnceHappens ==
  /\ Succeeded
  /\ Len(input.rows) >= 2
  /\ References(1, "r1006370") /\ References(2, "r1006370")
  /\ input.rows[1][optColumn] = "\"r1006370\"; r10063499,r1006370"
  /\ Cardinality({ p \in 1..Len(queries) : queries[p] = "1006370" }) = 1
  /\ inputData[1].results = inputData[2].results

\* output row out is input row in, possibly behind a new leading cell or
\* with the cell of the result column replaced
DerivedFrom(out, in) ==
  \/ out = in
  \/ Len(out) = Len(in) + 1 /\ Tail(out) = in
  \/ /\ optResultColumn > 0
     /\ Len(out) >= Len(in)
     /\ \A k \in 1..Len(in) : k # optResultColumn => out[k] = in[k]

\* C3: a successful run writes as many rows as it read, the i-th of them
\* derived from the i-th input row, in insert mode and in in-place mode.
RowsArePreserved ==
  OutputWritten =>
    /\ Len(output) = Len(input.rows)
    /\ \A i \in 1..Len(output) : DerivedFrom(output[i], input.rows[i])

\* C3 happens: two different rows, the first one skipped, written in order
RowsArePreservedHappens ==
  /\ OutputWritten
  /\ optSkip = 1
  /\ Len(input.rows) >= 2
  /\ input.rows[1] # input.rows[2]
  /\ ~DerivedFrom(output[1], input.rows[2])
  /\ ~DerivedFrom(output[2], input.rows[1])
  /\ ~IsNull(inputData[2].results)

\* row i is not skipped and its result cell is filled in the input
IsPrefilled(i) ==
  /\ optSkip < i
  /\ 0 < optResultColumn /\ optResultColumn <= Len(input.rows[i])
  /\ input.rows[i][optResultColumn] # ""

\* C5: in in-place mode a row that is not skipped and whose result cell is
\* filled never gets record numbers or results and is written with exactly
\* the cells it was read with; and whatever is queried is referenced by a
\* processed row, so such a row causes no query of its own.
PrefilledRowsAreLeftAlone ==
  /\ \A i \in 1..Len(inputData) :
       IsPrefilled(i) =>
         /\ IsNull(inputData[i].recordNumbers)
         /\ IsNull(inputData[i].results)
         /\ OutputWritten => output[i] = input.rows[i]
  /\ optResultColumn > 0 =>
       \A p \in 1..Len(queries) :
         \E i \in 1..Len(input.rows) : References(i, "r" \o queries[p])

\* C5 happens: a filled row names two record numbers, another row is
\* processed for one of them, and only that one has been queried
PrefilledRowsAreLeftAloneHappens ==
  /\ Succeeded
  /\ Len(input.rows) >= 2
  /\ IsPrefilled(1)
  /\ optColumn <= Len(input.rows[1])
  /\ Mentions(input.rows[1][optColumn], "r1006370")
  /\ Mentions(input.rows[1][optColumn], "r1006349")
  /\ References(2, "r1006349")
  /\ queries = << "1006349" >>
  /\ output[1] = input.rows[1]
  /\ output[2] # input.rows[2]

\* C7: once the lookup of a record number has failed, that query stays the
\* last one and the only one for its record number, nothing is recorded for
\* it, no output row is ever written, and process.exit is called with 1.
StoreErrorAbortsTheRun ==
  \A p \in 1..Len(queries) :
    ~store[queries[p]].ok =>
      /\ p = Len(queries)
      /\ \A q \in 1..Len(queries) : queries[q] = queries[p] => q = p
      /\ ("r" \o queries[p]) \notin DOMAIN mapping
      /\ pc \in { "await", "rejected", "exited" }
      /\ output = << >>
      /\ pc = "exited" => exitCode = Some(1)

\* C7 happens: the first of two lookups failed and the run has ended with 1
StoreErrorAbortsTheRunHappens ==
  /\ pc = "exited"
  /\ exitCode = Some(1)
  /\ uniqSetOfRecordNumbers = << "r1006349", "r1006370" >>
  /\ ~store["1006349"].ok
  /\ queries = << "1006349" >>
  /\ Len(input.rows) >= 1
  /\ output = << >>

\* the position of the first occurrence of x in xs
FirstIndex(xs, x) == CHOOSE i \in 1..Len(xs) : xs[i] = x /\ \A j \in 1..(i - 1) : xs[j] # x

\* the cell of written row out that holds the results
ResultCell(out) == IF optResultColumn = 0 THEN out[1] ELSE out[optResultColumn]

\* C8: the results of a row with record numbers are the resolutions of its
\* record numbers in cell order, lists of codes flattened, reduced to the
\* first occurrence of each value; the written cell is the results joined
\* with ", ".
RowResultsAreFirstOccurrences ==
  Assembled =>
    \A i \in 1..Len(inputData) :
      ~IsNull(inputData[i].recordNumbers) =>
        LET rns == Val(inputData[i].recordNumbers)
            flat == FlattenValues([ k \in 1..Len(rns) |-> mapping[rns[k]] ])
            res == Val(inputData[i].results)
        IN /\ Elements(rns) = { r \in RecordNumbers : References(i, r) }
           /\ \A a, b \in 1..Len(res) : res[a] = res[b] => a = b
           /\ Elements(res) = Elements(flat)
           /\ \A a, b \in 1..Len(res) :
                a < b => FirstIndex(flat, res[a]) < FirstIndex(flat, res[b])
           /\ OutputWritten => ResultCell(output[i]) = Join(res, ", ")

\* C8 happens: the README's two record numbers in one cell, resolved to a
\* code found twice and to the record number itself
RowResultsAreFirstOccurrencesHappens ==
  /\ OutputWritten
  /\ optResultColumn = 0
  /\ \E i \in 1..Len(inputData) :
       /\ inputData[i].recordNumbers = Some(<< "r1006349", "r1006370" >>)
       /\ FieldsOf("r1006349") = << "ABCD 1234", "ABCD1234" >>
       /\ FieldsOf("r1006370") = << >>
       /\ inputData[i].results = Some(<< "ABCD1234", "r1006370" >>)
       /\ output[i][1] = "ABCD1234, r1006370"

\* cell k (counted from 1) of a row as csv writes it: blank when missing
CellOrBlank(cells, k) == IF k <= Len(cells) THEN cells[k] ELSE ""

\* C9: the cells stored for a row stay the cells read; and in in-place mode
\* the written form of a row that is not skipped and has results differs
\* from the input row at the result column only, where it holds the results
\* joined with ", ".
InPlaceChangesOnlyTheResultCell ==
  /\ \A i \in 1..Len(inputData) : inputData[i].cells = input.rows[i]
  /\ (OutputWritten /\ optResultColumn > 0) =>
       \A i \in 1..Len(inputData) :
         (optSkip < i /\ ~IsNull(inputData[i].results)) =>
           /\ Len(output[i]) = Max(Len(input.rows[i]), optResultColumn)
           /\ output[i][optResultColumn] = Join(Val(inputData[i].results), ", ")
           /\ \A k \in 1..Len(output[i]) :
                k # optResultColumn => output[i][k] = CellOrBlank(input.rows[i], k)

\* C9 happens: the blank second cell of a two-cell row has been filled
InPlaceChangesOnlyTheResultCellHappens ==
  /\ OutputWritten
  /\ optResultColumn = 2
  /\ \E i \in 1..Len(inputData) :
       /\ optSkip < i
       /\ input.rows[i] = << "r1006349", "" >>
       /\ output[i] = << "r1006349", "ABCD1234" >>
       /\ inputData[i].cells = << "r1006349", "" >>

\* C10: at most one query is in flight, and it is the latest one; a later
\* query is issued only when every earlier one has its resolution recorded,
\* in ascending order of the record numbers; and rows are written only when
\* nothing is in flight, every referenced record number is resolved and
\* every row with record numbers has its results.
LookupsAreSequential ==
  /\ Cardinality(inflight) <= 1
  /\ inflight # { } => (queries # << >> /\ inflight = { queries[Len(queries)] })
  /\ \A p \in 1..(Len(queries) - 1) :
       /\ ("r" \o queries[p]) \in DOMAIN mapping
       /\ StringLess(queries[p], queries[p + 1])
  /\ output # << >> =>
       /\ inflight = { }
       /\ \A r \in RecordNumbers :
            (\E i \in 1..Len(input.rows) : References(i, r)) => r \in DOMAIN mapping
       /\ \A i \in 1..Len(inputData) :
            ~IsNull(inputData[i].recordNumbers) => ~IsNull(inputData[i].results)

\* C10 happens: the second query is in flight, the first one is recorded
LookupsAreSequentialHappens ==
  /\ pc = "await"
  /\ queries = << "1006349", "1006370" >>
  /\ inflight = { "1006370" }
  /\ DOMAIN mapping = { "r1006349" }
  /\ output = << >>

=============================================================================
